---- MODULE Spec2Model ----
(***************************************************************************)
(* Delta-hedging simulator: simulator.py (synthetic GBM path) and          *)
(* real_simulator.py (historical path).                                    *)
(*                                                                         *)
(* The time grid of the hedging walk (dt = 1 / steps, t = i * dt,          *)
(* T_remaining = 1 - t) and the price normalisation are Python float       *)
(* expressions; they are computed here in IEEE-754 binary64 with           *)
(* round-to-nearest-even, on mantissas kept as limb sequences.             *)
(* The ledger (cash, shares_held, portfolio value) is kept in exact        *)
(* fixed-point units, i.e. the real-valued accounting identities.          *)
(***************************************************************************)
EXTENDS Integers, Sequences, FiniteSets, TLC

Max2(x, y) == IF x > y THEN x ELSE y

(***************************************************************************)
(* Natural numbers as sequences of 14-bit limbs, least significant limb    *)
(* first, no leading zero limb; <<>> is 0.                                 *)
(***************************************************************************)
Base == 16384

LimbBits == 14

Pow2(k) == 2 ^ k

LimbAt(a, k) == IF k <= Len(a) THEN a[k] ELSE 0

Trim(a) ==
    IF \A k \in 1..Len(a) : a[k] = 0 THEN <<>>
    ELSE LET top == CHOOSE k \in 1..Len(a) : a[k] # 0 /\ \A j \in (k+1)..Len(a) : a[j] = 0
         IN SubSeq(a, 1, top)

NatL(n) == Trim(<<n % Base, (n \div Base) % Base, n \div (Base * Base)>>)

LessL(a, b) ==
    IF Len(a) # Len(b) THEN Len(a) < Len(b)
    ELSE \E k \in 1..Len(a) : a[k] < b[k] /\ \A j \in (k+1)..Len(a) : a[j] = b[j]

RECURSIVE AddFrom(_, _, _, _, _)
AddFrom(a, b, k, n, c) ==
    IF k > n THEN (IF c = 0 THEN <<>> ELSE <<c>>)
    ELSE LET s == LimbAt(a, k) + LimbAt(b, k) + c
         IN <<s % Base>> \o AddFrom(a, b, k + 1, n, s \div Base)

AddL(a, b) == AddFrom(a, b, 1, Max2(Len(a), Len(b)), 0)

RECURSIVE SubFrom(_, _, _, _)
SubFrom(a, b, k, c) ==
    IF k > Len(a) THEN <<>>
    ELSE LET s == a[k] - LimbAt(b, k) - c
         IN IF s < 0 THEN <<s + Base>> \o SubFrom(a, b, k + 1, 1)
            ELSE <<s>> \o SubFrom(a, b, k + 1, 0)

\* a - b for a >= b
SubL(a, b) == Trim(SubFrom(a, b, 1, 0))

RECURSIVE MulSmallFrom(_, _, _, _)
MulSmallFrom(a, n, k, c) ==
    IF k > Len(a) THEN (IF c = 0 THEN <<>> ELSE <<c>>)
    ELSE LET s == a[k] * n + c
         IN <<s % Base>> \o MulSmallFrom(a, n, k + 1, s \div Base)

\* a * n for 0 <= n < 2^16
MulSmallL(a, n) == IF n = 0 THEN <<>> ELSE MulSmallFrom(a, n, 1, 0)

RECURSIVE MulFrom(_, _, _)
MulFrom(a, b, j) ==
    IF j > Len(b) THEN <<>>
    ELSE LET rest == MulFrom(a, b, j + 1)
         IN AddL(MulSmallL(a, b[j]), IF rest = <<>> THEN <<>> ELSE <<0>> \o rest)

MulL(a, b) == MulFrom(a, b, 1)

\* a * 2^k
ShlL(a, k) ==
    IF a = <<>> THEN <<>>
    ELSE [j \in 1..(k \div LimbBits) |-> 0] \o MulSmallL(a, Pow2(k % LimbBits))

\* a \div 2^k
ShrL(a, k) ==
    LET d  == k \div LimbBits
        sh == k % LimbBits
        n  == Len(a) - d
    IN IF n <= 0 THEN <<>>
       ELSE Trim([j \in 1..n |->
                    (a[j + d] \div Pow2(sh))
                    + (LimbAt(a, j + d + 1) % Pow2(sh)) * Pow2(LimbBits - sh)])

\* a % 2^k
ModPow2L(a, k) ==
    LET d  == k \div LimbBits
        sh == k % LimbBits
    IN Trim([j \in 1..(d + 1) |->
               IF j <= d THEN LimbAt(a, j) ELSE LimbAt(a, j) % Pow2(sh)])

BitLenInt(x) == CHOOSE k \in 0..LimbBits : x < Pow2(k) /\ (k = 0 \/ x >= Pow2(k - 1))

BitLenL(a) == IF a = <<>> THEN 0 ELSE (Len(a) - 1) * LimbBits + BitLenInt(a[Len(a)])

IsOddL(a) == a # <<>> /\ a[1] % 2 = 1

\* n steps of binary long division by b: st.r < b is the remainder so far,
\* st.q the quotient bits so far (the next dividend bits are all 0)
RECURSIVE DivIter(_, _, _)
DivIter(st, b, n) ==
    IF n = 0 THEN st
    ELSE IF n = 1
    THEN LET r2 == MulSmallL(st.r, 2)
             q2 == MulSmallL(st.q, 2)
         IN IF LessL(r2, b) THEN [q |-> q2, r |-> r2]
            ELSE [q |-> AddL(q2, <<1>>), r |-> SubL(r2, b)]
    ELSE LET h == DivIter(st, b, n \div 2)
         IN IF h.r = <<>> THEN [q |-> ShlL(h.q, n - n \div 2), r |-> <<>>]
            ELSE DivIter(h, b, n - n \div 2)

(***************************************************************************)
(* binary64 values: (-1)^neg * m * 2^e with 2^52 <= m < 2^53, zero as the  *)
(* empty mantissa, rounding to nearest, ties to even.  The exponent range  *)
(* is not modelled (no value of the program comes near the overflow or     *)
(* subnormal range).                                                       *)
(***************************************************************************)
Precision == 53

FZero == [neg |-> FALSE, m |-> <<>>, e |-> 0]

\* the exact value n * 2^e (plus a nonzero tail below it when sticky),
\* rounded
Round(neg, n, e, sticky) ==
    LET len == BitLenL(n)
        sh  == len - Precision
    IN IF len = 0 THEN FZero
       ELSE IF sh <= 0 THEN [neg |-> neg, m |-> ShlL(n, -sh), e |-> e + sh]
       ELSE LET q    == ShrL(n, sh)
                rem  == ModPow2L(n, sh)
                half == ShlL(<<1>>, sh - 1)
                up   == LessL(half, rem) \/ (rem = half /\ (sticky \/ IsOddL(q)))
                q1   == IF up THEN AddL(q, <<1>>) ELSE q
            IN IF BitLenL(q1) > Precision
               THEN [neg |-> neg, m |-> ShrL(q1, 1), e |-> e + sh + 1]
               ELSE [neg |-> neg, m |-> q1, e |-> e + sh]

IntToFloat(n) == Round(n < 0, NatL(IF n < 0 THEN -n ELSE n), 0, FALSE)

FNeg(x) == IF x.m = <<>> THEN x ELSE [x EXCEPT !.neg = ~x.neg]

FAdd(x, y) ==
    IF x.m = <<>> THEN y
    ELSE IF y.m = <<>> THEN x
    ELSE LET e  == IF x.e < y.e THEN x.e ELSE y.e
             ax == ShlL(x.m, x.e - e)
             ay == ShlL(y.m, y.e - e)
         IN IF x.neg = y.neg THEN Round(x.neg, AddL(ax, ay), e, FALSE)
            ELSE IF LessL(ax, ay) THEN Round(y.neg, SubL(ay, ax), e, FALSE)
            ELSE Round(x.neg, SubL(ax, ay), e, FALSE)

FSub(x, y) == FAdd(x, FNeg(y))

FMul(x, y) ==
    IF x.m = <<>> \/ y.m = <<>> THEN FZero
    ELSE Round(x.neg # y.neg, MulL(x.m, y.m), x.e + y.e, FALSE)

\* x / y for y # 0
FDiv(x, y) ==
    IF x.m = <<>> THEN FZero
    ELSE LET first == IF LessL(x.m, y.m) THEN [q |-> <<>>, r |-> x.m]
                      ELSE [q |-> <<1>>, r |-> SubL(x.m, y.m)]
             z     == Precision + 2
             d     == DivIter(first, y.m, z)
         IN Round(x.neg # y.neg, d.q, x.e - y.e - z, d.r # <<>>)

FLess(x, y) == LET d == FSub(x, y) IN d.neg /\ d.m # <<>>

FLeqZero(x) == x.m = <<>> \/ x.neg

(***************************************************************************)
(* Units.  Prices (spot, strike, option price) are integers.  Hedge ratios *)
(* are counted in 1/DScale, the cost rate in 1/CScale, and money (cash,    *)
(* trade amounts, portfolio values) in 1/(DScale*CScale), so that every    *)
(* product below is exact.                                                 *)
(***************************************************************************)
DScale == 2

CScale == 1000

Abs(x) == IF x < 0 THEN -x ELSE x

Max(x, y) == IF x > y THEN x ELSE y

\* a price as money
Money(p) == p * DScale * CScale

\* shares * S as money
Notional(shares, spot) == shares * spot * CScale

\* abs(trade_amount) * transaction_cost
Fee(trade_amount, c) == (Abs(trade_amount) * c) \div CScale

\* a name not yet bound; optional results are <<>> or <<value>>
None == "None"

(***************************************************************************)
(* Bounds of the model.                                                    *)
(***************************************************************************)
MaxSteps == 3

MaxPrice == 3

MaxHedge == 2

MaxLongSteps == 49

PriceSet == 2..MaxPrice

StrikeSet == {2}

CostSet == {0, 1}

HedgeSet == 1..MaxHedge

\* values of the closed formula (lines 39-45) on an unexpired option: the
\* logarithm, exponential and normal CDF are not computed, the quote is any
\* of these
QuoteSet == {[price |-> 1, delta |-> 1], [price |-> 2, delta |-> DScale]}

LongQuoteSet == {[price |-> 1, delta |-> 1]}

VARIABLES
    path, K, r, sigma, hedge_every, transaction_cost, variant,
    pc, steps, dt, cash, shares_held, portfolio_value, deltas, i,
    S, T_remaining, option_price, delta, calls, result, raised

VARIABLES rng, runs

VARIABLES raw, stage, price_series, normalized, renormalized, norm_raised

VARIABLES bs_in, bs_out

gbmVars == <<rng, runs>>

normVars == <<raw, stage, price_series, normalized, renormalized, norm_raised>>

bsVars == <<bs_in, bs_out>>

walkVars == <<path, K, r, sigma, hedge_every, transaction_cost, variant,
              pc, steps, dt, cash, shares_held, portfolio_value, deltas, i,
              S, T_remaining, option_price, delta, calls, result, raised>>

vars == <<walkVars, gbmVars, normVars, bsVars>>

(***************************************************************************)
(* Option pricer.  q is the value of the closed formula on these inputs.   *)
(* ops lists the operations evaluated, in order.                           *)
(***************************************************************************)
\* slip: the expiry test written T < 0
black_scholes_call_strict(spot, strike, T, rate, vol, q) ==
    IF T.neg /\ T.m # <<>>
    THEN [price |-> Max(spot - strike, 0),
          delta |-> IF spot > strike THEN DScale ELSE 0,
          ops |-> <<"T <= 0">>, zerodiv |-> FALSE]
    ELSE [price |-> q.price, delta |-> q.delta,
          ops |-> <<"T <= 0", "log", "sqrt", "div", "cdf", "exp">>,
          zerodiv |-> vol = 0 \/ T.m = <<>>]

black_scholes_call(spot, strike, T, rate, vol, q) ==
    IF FLeqZero(T)
    THEN [price |-> Max(spot - strike, 0),
          delta |-> IF spot > strike THEN DScale ELSE 0,
          ops |-> <<"T <= 0">>, zerodiv |-> FALSE]
    ELSE [price |-> q.price, delta |-> q.delta,
          ops |-> <<"T <= 0", "log", "sqrt", "div", "cdf", "exp">>,
          zerodiv |-> vol = 0]

real_black_scholes_call(spot, strike, T, rate, vol, q) ==
    LET b == black_scholes_call(spot, strike, T, rate, vol, q)
    IN [b EXCEPT !.ops = <<"float">> \o b.ops]

Pricer(v, spot, strike, T, rate, vol, q) ==
    IF v = "real_simulator" THEN real_black_scholes_call(spot, strike, T, rate, vol, q)
    ELSE black_scholes_call(spot, strike, T, rate, vol, q)

(***************************************************************************)
(* simulate_delta_hedging                                                  *)
(***************************************************************************)
Series(values, index) == [values |-> values, index |-> index]

\* the time label of sample k of n: (k-1)/(n-1), kept as a pair
PathIndex(n) == [k \in 1..n |-> <<k - 1, n - 1>>]

PathsOfLen(n, prices) == {Series(v, PathIndex(n)) : v \in [1..n -> prices]}

\* slip: range(steps)
InRangeShort(k, n) == k < n

\* for i in range(steps + 1)
InRange(k, n) == k <= n

\* i * dt and 1 - t
TimeOf(step, d) == FMul(IntToFloat(step), d)

TRemaining(t) == FSub(IntToFloat(1), t)

\* slips of the rebalancing test
IsRebalanceEveryStep(step, every) == TRUE

IsRebalanceOffByOne(step, every) == (step + 1) % every = 0

IsRebalance(step, every) == step % every = 0

InitialTrade(d, spot) == Notional(d, spot)

\* slip: the fee credited instead of charged
InitialCashFeeCredited(price, trade_amount, cost) == Money(price) - trade_amount + cost

InitialCash(price, trade_amount, cost) == Money(price) - trade_amount - cost

RebalanceTrade(new_shares, held, spot) == Notional(new_shares - held, spot)

\* slip: cash -= trade_amount - cost
RebalancedCashFeeCredited(c, trade_amount, cost) == c - (trade_amount - cost)

RebalancedCash(c, trade_amount, cost) == c - (trade_amount + cost)

MarkToMarket(held, spot, c, price) == Notional(held, spot) + c - Money(price)

InitWalk(lens, prices) ==
    /\ path \in UNION {PathsOfLen(n, prices) : n \in lens}
    /\ K \in StrikeSet
    /\ r = 1
    /\ sigma = 1
    /\ hedge_every \in HedgeSet
    /\ transaction_cost \in CostSet
    /\ variant \in {"simulator", "real_simulator"}
    /\ pc = "start"
    /\ steps = None /\ dt = None
    /\ cash = None /\ shares_held = None
    /\ portfolio_value = None /\ deltas = None
    /\ i = None
    /\ S = None /\ T_remaining = None /\ option_price = None /\ delta = None
    /\ calls = <<>>
    /\ result = <<>>
    /\ raised = None

\* lines 49-54: a one-sample path divides by zero
Start ==
    /\ pc = "start"
    /\ steps' = Len(path.values) - 1
    /\ IF steps' = 0
       THEN /\ raised' = "ZeroDivisionError"
            /\ pc' = "raised"
            /\ UNCHANGED <<dt, cash, shares_held, portfolio_value, deltas, i>>
       ELSE /\ dt' = FDiv(IntToFloat(1), IntToFloat(steps'))
            /\ cash' = 0
            /\ shares_held' = 0
            /\ portfolio_value' = <<>>
            /\ deltas' = <<>>
            /\ i' = 0
            /\ pc' = "loop"
            /\ UNCHANGED raised
    /\ UNCHANGED <<path, K, r, sigma, hedge_every, transaction_cost, variant,
                   S, T_remaining, option_price, delta, calls, result>>
    /\ UNCHANGED <<gbmVars, normVars, bsVars>>

\* lines 56-79: one iteration of the loop
Step(quotes) ==
    /\ pc = "loop"
    /\ InRange(i, steps)
    /\ S' = path.values[i + 1]
    /\ T_remaining' = TRemaining(TimeOf(i, dt))
    /\ \E q \in quotes :
        LET quote == Pricer(variant, S', K, T_remaining', r, sigma, q)
        IN /\ option_price' = quote.price
           /\ delta' = quote.delta
           /\ calls' = Append(calls, [i |-> i, T |-> T_remaining', ops |-> quote.ops])
    /\ deltas' = Append(deltas, delta')
    /\ IF i = 0
       THEN LET trade_amount == InitialTrade(delta', S')
                cost         == Fee(trade_amount, transaction_cost)
            IN /\ cash' = InitialCash(option_price', trade_amount, cost)
               /\ shares_held' = delta'
       ELSE IF IsRebalance(i, hedge_every)
       THEN LET new_shares   == delta'
                trade_amount == RebalanceTrade(new_shares, shares_held, S')
                cost         == Fee(trade_amount, transaction_cost)
            IN /\ cash' = RebalancedCash(cash, trade_amount, cost)
               /\ shares_held' = new_shares
       ELSE UNCHANGED <<cash, shares_held>>
    /\ portfolio_value' = Append(portfolio_value,
                                 MarkToMarket(shares_held', S', cash', option_price'))
    /\ i' = i + 1
    /\ UNCHANGED <<path, K, r, sigma, hedge_every, transaction_cost, variant,
                   pc, steps, dt, result, raised>>
    /\ UNCHANGED <<gbmVars, normVars, bsVars>>

\* line 81
Return ==
    /\ pc = "loop"
    /\ ~InRange(i, steps)
    /\ result' = <<Series(portfolio_value, path.index), Series(deltas, path.index)>>
    /\ pc' = "done"
    /\ UNCHANGED <<path, K, r, sigma, hedge_every, transaction_cost, variant,
                   steps, dt, cash, shares_held, portfolio_value, deltas, i,
                   S, T_remaining, option_price, delta, calls, raised>>
    /\ UNCHANGED <<gbmVars, normVars, bsVars>>

WalkIdle ==
    /\ path = None /\ K = None /\ r = None /\ sigma = None
    /\ hedge_every = None /\ transaction_cost = None /\ variant = None
    /\ pc = "idle" /\ steps = None /\ dt = None /\ cash = None
    /\ shares_held = None /\ portfolio_value = None /\ deltas = None
    /\ i = None /\ S = None /\ T_remaining = None /\ option_price = None
    /\ delta = None /\ calls = <<>> /\ result = <<>> /\ raised = None

GbmIdle == rng = 0 /\ runs = <<>>

NormIdle ==
    /\ raw = None /\ stage = "idle" /\ price_series = <<>>
    /\ normalized = <<>> /\ renormalized = <<>> /\ norm_raised = None

BsIdle == bs_in = None /\ bs_out = <<>>

Init == InitWalk(1..(MaxSteps + 1), PriceSet) /\ GbmIdle /\ NormIdle /\ BsIdle

Next == Start \/ Step(QuoteSet) \/ Return

Spec == Init /\ [][Next]_vars

(***************************************************************************)
(* Long walks on a flat path, one formula value: the time grid up to       *)
(* MaxLongSteps steps.                                                     *)
(***************************************************************************)
InitLong ==
    /\ InitWalk((MaxSteps + 2)..(MaxLongSteps + 1), {MaxPrice})
    /\ GbmIdle /\ NormIdle /\ BsIdle

NextLong == Start \/ Step(LongQuoteSet) \/ Return

SpecLong == InitLong /\ [][NextLong]_vars

(***************************************************************************)
(* numpy.linspace(0, stop, n): step = stop / (n - 1), sample k is k * step *)
(* and the last sample is set to stop.                                     *)
(***************************************************************************)
Linspace(stop, n) ==
    [k \in 1..n |->
        IF n > 1 /\ k = n THEN stop
        ELSE IF n = 1 THEN FZero
        ELSE FMul(IntToFloat(k - 1), FDiv(stop, IntToFloat(n - 1)))]

(***************************************************************************)
(* simulate_gbm and the process-wide generator np.random.  The generator   *)
(* is a full-period congruential generator on RngMod states; a normal draw *)
(* advances it and yields Z in {-1, 0, 1}.  Prices are kept by their       *)
(* logarithm on a lattice: ln S_next = ln S_prev + drift + vol * Z.        *)
(***************************************************************************)
RngMod == 8

MaxGbmSteps == 2

MaxRuns == 2

\* the seed argument: <<>> when omitted (seed=None), <<n>> when supplied
SeedSet == {<<>>, <<0>>, <<1>>, <<2>>}

SeedRng(seed) == seed[1] % RngMod

NextRng(x) == (5 * x + 3) % RngMod

Normal(x) == (x % 3) - 1

\* `if seed:`
Truthy(seed) == seed # <<>> /\ seed[1] # 0

GbmNext(S_prev, mu, vol, Z) == S_prev + mu + vol * Z

\* the loop of lines 21-25, n iterations from generator state x
RECURSIVE GbmLoop(_, _, _, _, _)
GbmLoop(x, prices, mu, vol, n) ==
    IF n = 0 THEN [rng |-> x, prices |-> prices, draws |-> <<>>]
    ELSE LET x1   == NextRng(x)
             Z    == Normal(x1)
             rest == GbmLoop(x1, Append(prices, GbmNext(prices[Len(prices)], mu, vol, Z)),
                             mu, vol, n - 1)
         IN [rest EXCEPT !.draws = <<Z>> \o rest.draws]

simulate_gbm(x, S0, mu, vol, T, n, seed) ==
    LET start == IF Truthy(seed) THEN SeedRng(seed) ELSE x
        loop  == GbmLoop(start, <<S0>>, mu, vol, n)
    IN [rng |-> loop.rng, draws |-> loop.draws,
        path |-> Series(loop.prices, Linspace(T, n + 1))]

SimulateGbm ==
    /\ Len(runs) < MaxRuns
    /\ \E seed \in SeedSet, n \in 1..MaxGbmSteps :
        LET args == [S0 |-> 0, mu |-> 0, sigma |-> 1, T |-> IntToFloat(1),
                     steps |-> n, seed |-> seed]
            out  == simulate_gbm(rng, args.S0, args.mu, args.sigma, args.T, n, seed)
        IN /\ rng' = out.rng
           /\ runs' = Append(runs, [args |-> args, draws |-> out.draws, path |-> out.path])
    /\ UNCHANGED <<walkVars, normVars, bsVars>>

\* any other np.random.normal() of the process
OtherDraw ==
    /\ rng' = NextRng(rng)
    /\ UNCHANGED runs
    /\ UNCHANGED <<walkVars, normVars, bsVars>>

InitGbm == rng \in 0..(RngMod - 1) /\ runs = <<>> /\ WalkIdle /\ NormIdle /\ BsIdle

NextGbm == SimulateGbm \/ OtherDraw

SpecGbm == InitGbm /\ [][NextGbm]_vars

(***************************************************************************)
(* get_stock_data and normalize_price_series                               *)
(***************************************************************************)
MaxSeriesLen == 3

\* trading days: consecutive, or with gaps
DateIndexes(n) == {[k \in 1..n |-> k], [k \in 1..n |-> k * k]}

\* closing prices of the downloaded series
CloseSet == {2, 3, 7}

RawSeries ==
    UNION {{Series([k \in 1..n |-> IntToFloat(v[k])], d) :
                v \in [1..n -> CloseSet], d \in DateIndexes(n)} : n \in 0..MaxSeriesLen}

\* slip: price_series.iloc[-1]
BaseOfLast(ps) == ps.values[Len(ps.values)]

\* float(price_series.iloc[0])
BaseOf(ps) == ps.values[1]

\* price_series / base * 100
NormalizeValue(v, base) == FMul(FDiv(v, base), IntToFloat(100))

\* slip: an empty series passed through
normalize_price_series_lenient(ps) ==
    IF Len(ps.values) = 0
    THEN [raised |-> None, series |-> ps]
    ELSE [raised |-> None,
          series |-> Series([k \in 1..Len(ps.values) |-> NormalizeValue(ps.values[k], BaseOf(ps))],
                            Linspace(IntToFloat(1), Len(ps.values)))]

normalize_price_series(ps) ==
    IF Len(ps.values) = 0
    THEN [raised |-> "IndexError", series |-> <<>>]
    ELSE [raised |-> None,
          series |-> Series([k \in 1..Len(ps.values) |-> NormalizeValue(ps.values[k], BaseOf(ps))],
                            Linspace(IntToFloat(1), Len(ps.values)))]

GetStockData ==
    /\ stage = "start"
    /\ IF Len(raw.values) = 0
       THEN norm_raised' = "ValueError" /\ stage' = "failed" /\ UNCHANGED price_series
       ELSE price_series' = <<raw>> /\ stage' = "loaded" /\ UNCHANGED norm_raised
    /\ UNCHANGED <<raw, normalized, renormalized>>
    /\ UNCHANGED <<walkVars, gbmVars, bsVars>>

\* normalize_price_series on the loaded series, or called on a series directly
Normalize ==
    /\ stage \in {"start", "loaded"}
    /\ price_series' = IF stage = "start" THEN <<raw>> ELSE price_series
    /\ LET out == normalize_price_series(price_series'[1])
       IN IF out.raised # None
          THEN norm_raised' = out.raised /\ stage' = "failed" /\ UNCHANGED normalized
          ELSE normalized' = <<out.series>> /\ stage' = "normalized" /\ UNCHANGED norm_raised
    /\ UNCHANGED <<raw, renormalized>>
    /\ UNCHANGED <<walkVars, gbmVars, bsVars>>

\* the normalized series fed back as raw input
Renormalize ==
    /\ stage = "normalized"
    /\ LET out == normalize_price_series(normalized[1])
       IN IF out.raised # None
          THEN norm_raised' = out.raised /\ stage' = "failed" /\ UNCHANGED renormalized
          ELSE renormalized' = <<out.series>> /\ stage' = "renormalized" /\ UNCHANGED norm_raised
    /\ UNCHANGED <<raw, price_series, normalized>>
    /\ UNCHANGED <<walkVars, gbmVars, bsVars>>

InitNorm ==
    /\ raw \in RawSeries /\ stage = "start" /\ price_series = <<>>
    /\ normalized = <<>> /\ renormalized = <<>> /\ norm_raised = None
    /\ WalkIdle /\ GbmIdle /\ BsIdle

NextNorm == GetStockData \/ Normalize \/ Renormalize

SpecNorm == InitNorm /\ [][NextNorm]_vars

(***************************************************************************)
(* The pricer on its own.                                                  *)
(***************************************************************************)
TSet == {IntToFloat(-1), FZero, TRemaining(TimeOf(49, FDiv(IntToFloat(1), IntToFloat(49)))),
         FDiv(IntToFloat(1), IntToFloat(2)), IntToFloat(1)}

PriceCall ==
    /\ bs_out = <<>>
    /\ \E q \in QuoteSet :
        bs_out' = <<Pricer(bs_in.impl, bs_in.S, bs_in.K, bs_in.T, bs_in.r, bs_in.sigma, q)>>
    /\ UNCHANGED bs_in
    /\ UNCHANGED <<walkVars, gbmVars, normVars>>

InitPricer ==
    /\ bs_in \in [S : PriceSet, K : StrikeSet, T : TSet, r : {0, 1}, sigma : {0, 1},
                  impl : {"simulator", "real_simulator"}]
    /\ bs_out = <<>>
    /\ WalkIdle /\ GbmIdle /\ NormIdle

NextPricer == PriceCall

SpecPricer == InitPricer /\ [][NextPricer]_vars

(***************************************************************************)
(* Properties                                                              *)
(***************************************************************************)
HasOp(ops, name) == \E k \in 1..Len(ops) : ops[k] = name

\* the largest multiple of every that is <= step
LastRebalanceStep(step, every) == step - (step % every)

\* C1: once step i-1 has been processed, shares_held is the hedge ratio
\* quoted at the latest step j <= i-1 with j mod hedge_every = 0 (step 0
\* included), whatever was quoted since; so the final step trades only when
\* N mod hedge_every = 0.
C1_SharesFromLastRebalance ==
    (pc \in {"loop", "done"} /\ i >= 1) =>
        shares_held = deltas[LastRebalanceStep(i - 1, hedge_every) + 1]

C1_Witness ==
    /\ pc = "done" /\ steps >= 2
    /\ steps % hedge_every # 0
    /\ shares_held # deltas[steps + 1]
    /\ shares_held = deltas[LastRebalanceStep(steps, hedge_every) + 1]

C3_SeededRunsAgree ==
    \A a, b \in 1..Len(runs) :
        (runs[a].args = runs[b].args /\ runs[a].args.seed # <<>>) =>
            (runs[a].draws = runs[b].draws /\ runs[a].path = runs[b].path)

\* C4: normalize_price_series on a zero-length series raises (the error of
\* an empty input) and yields no normalized path.
EmptyInputError == "IndexError"

C5_ExpiredQuote ==
    (bs_out # <<>> /\ FLeqZero(bs_in.T)) =>
        /\ bs_out[1].price = (IF bs_in.S > bs_in.K THEN bs_in.S - bs_in.K ELSE 0)
        /\ bs_out[1].delta = (IF bs_in.S > bs_in.K THEN DScale ELSE 0)
        /\ ~HasOp(bs_out[1].ops, "log") /\ ~HasOp(bs_out[1].ops, "div")
        /\ ~bs_out[1].zerodiv

C5_Witness ==
    /\ bs_out # <<>> /\ bs_in.T = FZero /\ bs_in.sigma = 0 /\ bs_in.S > bs_in.K
    /\ bs_out[1].price = bs_in.S - bs_in.K

\* C6: a step i > 0 with i mod hedge_every # 0 leaves cash and shares_held
\* as they were, while it still prices once, appends the quoted hedge
\* ratio to the series and marks to market at the quoted price.
C6_NoTradeOffGrid ==
    [][(pc = "loop" /\ i <= steps /\ i > 0 /\ i % hedge_every # 0) =>
          /\ cash' = cash
          /\ shares_held' = shares_held
          /\ Len(calls') = Len(calls) + 1
          /\ deltas' = Append(deltas, delta')
          /\ portfolio_value' = Append(portfolio_value,
                 shares_held * S' * CScale + cash - option_price' * DScale * CScale)]_vars

C6_Witness ==
    /\ pc = "loop" /\ i >= 2 /\ (i - 1) % hedge_every # 0
    /\ delta # shares_held
    /\ Len(deltas) = i /\ deltas[i] = delta

\* C7: the walk takes steps 0, 1, ..., N in this order, one pricing each,
\* then returns (the number of steps left, N + 1 - i, falls by one at every
\* iteration and the walk returns when it is 0), and the two series it
\* returns have N+1 entries on the index of the path.
C7_WalkOrder ==
    /\ [][pc = "loop" =>
             \/ /\ pc' = "loop"
                /\ i <= steps /\ i' = i + 1
                /\ Len(calls') = Len(calls) + 1
                /\ calls'[Len(calls')].i = i
             \/ /\ pc' = "done"
                /\ i = steps + 1 /\ i' = i]_vars
    /\ [](pc = "done" =>
             /\ Len(calls) = steps + 1
             /\ \A k \in 1..Len(calls) : calls[k].i = k - 1
             /\ Len(result[1].values) = steps + 1
             /\ Len(result[2].values) = steps + 1
             /\ result[1].index = path.index
             /\ result[2].index = path.index)

C7_Witness == pc = "done" /\ steps = MaxSteps /\ Len(result[1].values) = MaxSteps + 1

\* C8: normalizing a normalized series of length >= 2 gives the same
\* series: same values, starting at 100, same index from 0 to 1.
C8_RenormalizeIdempotent ==
    (stage = "renormalized" /\ Len(raw.values) >= 2) =>
        /\ renormalized = normalized
        /\ normalized[1].values[1] = IntToFloat(100)
        /\ Len(normalized[1].values) = Len(raw.values)
        /\ normalized[1].index[1] = FZero
        /\ normalized[1].index[Len(raw.values)] = IntToFloat(1)
        /\ \A k \in 1..(Len(raw.values) - 1) :
               FLess(normalized[1].index[k], normalized[1].index[k + 1])

C8_Witness ==
    /\ stage = "renormalized" /\ Len(raw.values) = MaxSeriesLen
    /\ raw.values[1] = IntToFloat(3) /\ raw.values[2] = IntToFloat(2)
    /\ renormalized[1].values[2] = normalized[1].values[2]

\* C9: the remaining time is 1 at step 0, falls at every step and is
\* positive at every step i < N; at the final step N it is 0, the pricer
\* takes its expiry branch and the last portfolio value is
\* shares_held * S_N + cash - max(S_N - K, 0).
C9_FinalStepExpired ==
    /\ (pc \in {"loop", "done"} /\ i >= 1) =>
           /\ calls[1].T = IntToFloat(1)
           /\ calls[i].i < steps => FLess(FZero, calls[i].T)
           /\ i >= 2 => FLess(calls[i].T, calls[i - 1].T)
    /\ pc = "done" =>
           /\ T_remaining = FZero
           /\ ~HasOp(calls[steps + 1].ops, "log")
           /\ portfolio_value[steps + 1] =
                  shares_held * S * CScale + cash
                  - (IF S > K THEN S - K ELSE 0) * DScale * CScale

====
